---- MODULE Spec2Model ----
(***************************************************************************)
(* Model of controllers/capi2argo_reconciler.go: one reconciliation pass   *)
(* of Capi2Argo.Reconcile, split at its store calls, running against a     *)
(* store of CAPI kubeconfig secrets and ArgoCD cluster secrets that other  *)
(* actors change between the calls.                                        *)
(*                                                                         *)
(* Strings are sequences of tokens: names are sequences of characters (so  *)
(* suffix tests and concatenations are computed), byte payloads are        *)
(* sequences of opaque tokens.                                             *)
(***************************************************************************)
EXTENDS Naturals, Sequences, FiniteSets, TLC

VARIABLES
    ArgoNamespace,          \* package variable set by init()
    EnableNamespacedNames,  \* package variable set by init()
    capiStore,              \* the CAPI secrets of the store, by NamespacedName
    argoStore,              \* the Argo secrets of the store, by NamespacedName
    pc,                     \* position of the running pass
    req,                    \* ctrl.Request of the running (or last) pass
    capiSecret,             \* local: the fetched CAPI secret
    cluster,                \* local: the resolved CAPI cluster object
    existingSecret,         \* local: the fetched Argo secret (mutated in place)
    exists,                 \* local: whether the Argo secret was found
    stale,                  \* the stored Argo secret was written after the pass read it
    err,                    \* error returned by the last finished pass
    outcome,                \* return site of the last finished pass
    calls,                  \* store and resolver calls of the running (or last) pass
    lastWrite,              \* the write of the running (or last) pass, if any
    prev,                   \* outcome of the pass before this one, when it was for the
                            \* same request and no other actor wrote since it started
    quiet,                  \* no other actor wrote since this pass started
    envOps                  \* number of writes by other actors so far

vars == <<ArgoNamespace, EnableNamespacedNames, capiStore, argoStore, pc, req,
          capiSecret, cluster, existingSecret, exists, stale, err, outcome,
          calls, lastWrite, prev, quiet, envOps>>

passVars == <<pc, req, capiSecret, cluster, existingSecret, exists, stale, err,
              outcome, calls, lastWrite, prev>>

confVars == <<ArgoNamespace, EnableNamespacedNames>>

----------------------------------------------------------------------------
(* Bounds *)

\* Number of writes other actors (the cluster-lifecycle manager, humans, other
\* automation) perform in one behaviour.
MaxEnvOps == 2

----------------------------------------------------------------------------
(* Strings *)

Str(s) == <<s>>

\* strings.HasSuffix
HasSuffix(s, suf) ==
    Len(suf) <= Len(s) /\ SubSeq(s, Len(s) - Len(suf) + 1, Len(s)) = suf

\* strings.TrimSuffix
TrimSuffix(s, suf) ==
    IF HasSuffix(s, suf) THEN SubSeq(s, 1, Len(s) - Len(suf)) ELSE s

\* "-kubeconfig"
CapiSuffix == <<"-", "k", "u", "b", "e", "c", "o", "n", "f", "i", "g">>

\* "cluster-"
ArgoPrefix == <<"c", "l", "u", "s", "t", "e", "r", "-">>

Nil == "nil"

\* A Go map: a function on the keys present. Reading a missing key gives the
\* zero value, the empty string.
EmptyMap == [k \in {} |-> <<>>]

MapGet(m, k) == IF k \in DOMAIN m THEN m[k] ELSE <<>>

MapSet(m, k, v) == [x \in DOMAIN m \cup {k} |-> IF x = k THEN v ELSE m[x]]

\* bytes.Equal: a nil slice and an empty slice are equal.
BytesEqual(a, b) == a = b

----------------------------------------------------------------------------
(* The records of the store *)

NamespacedName(ns, name) == [Namespace |-> ns, Name |-> name]

\* A key of the store that holds no object.
Absent == [Kind |-> "absent"]

CapiType == Str("cluster.x-k8s.io/secret")
OpaqueType == Str("Opaque")
ClusterNameLabel == "cluster.x-k8s.io/cluster-name"
OwnedLabel == "capi-to-argocd/owned"
ClassLabel == "class"

Secret(type, labels, data, nilData) ==
    [Kind |-> "secret", Type |-> type, Labels |-> labels, Data |-> data,
     NilData |-> nilData]

\* Connection configurations, as the bytes of Data["value"].
Server1 == "https://1.2.3.4:6443"
Server2 == "https://9.9.9.9:6443"
Classes == {"classA"}

Kubeconfig(server, cred) == <<"kubeconfig", server, cred>>
Garbage == <<"garbage">>

\* Namespaces and secret names the events are about.
NsN == <<"n">>
NsNA == <<"n", "-", "a">>
NameAB == <<"a", "-", "b">> \o CapiSuffix
NameB == <<"b">> \o CapiSuffix

\* The key whose secret takes every shape; the others hold one well-formed secret.
MainKey == NamespacedName(NsN, NameAB)

\* Names that follow the CAPI convention.
CapiKeys == {NamespacedName(NsN, NameAB), NamespacedName(NsNA, NameB),
             NamespacedName(NsNA, NameAB)}

\* Names that do not: no suffix, no cluster name before the suffix.
OtherKeys == {NamespacedName(NsN, <<"a", "-", "b">>),
              NamespacedName(NsN, CapiSuffix)}

Requests == CapiKeys \cup OtherKeys

\* The CAPI secret of scenario A under key k.
WellFormedSecret(k) ==
    Secret(CapiType, (ClusterNameLabel :> TrimSuffix(k.Name, CapiSuffix)),
           ("value" :> Kubeconfig(Server1, "cert1")), FALSE)

\* The CAPI secrets the cluster-lifecycle manager and others store under a key:
\* well-formed ones, and for the main key also one of another type, one without
\* the value field, one with an unparseable value, one that names no cluster.
CapiSecretsOf(k) ==
    LET c == TrimSuffix(k.Name, CapiSuffix)
        lbl == (ClusterNameLabel :> c)
        val(s, cr) == ("value" :> Kubeconfig(s, cr))
    IN  IF k # MainKey
        THEN { WellFormedSecret(k) }
        ELSE { WellFormedSecret(k),
               Secret(CapiType, lbl, val(Server2, "cert1"), FALSE),
               Secret(CapiType, lbl, val(Server1, "cert2"), FALSE),
               Secret(OpaqueType, lbl, val(Server1, "cert1"), FALSE),
               Secret(CapiType, lbl, EmptyMap, TRUE),
               Secret(CapiType, lbl, ("value" :> Garbage), FALSE),
               Secret(CapiType, EmptyMap, val(Server1, "cert1"), FALSE) }

\* The Argo secrets other actors store: not owned (no label, another value of the
\* label), or carrying the owned label with an older class and server, or with
\* no data.
ForeignArgoSecrets ==
    LET data(srv) == ("name" :> <<"a", "-", "b">>) @@ ("server" :> Str(srv))
                     @@ ("config" :> <<"tlsClientConfig", "cert1">>)
                     @@ ("project" :> Str("default"))
    IN  { Secret(OpaqueType, EmptyMap, data(Server2), FALSE),
          Secret(OpaqueType, (OwnedLabel :> Str("false")), data(Server2), FALSE),
          Secret(OpaqueType, (OwnedLabel :> Str("true")) @@ (ClassLabel :> Str("classB")),
                 data(Server2), FALSE),
          Secret(OpaqueType, (OwnedLabel :> Str("true")), EmptyMap, TRUE) }

----------------------------------------------------------------------------
(* Helpers of the pass *)

\* The name ends in the credential suffix and the cluster name before it is
\* not empty.
ValidateCapiNaming(n) ==
    HasSuffix(n.Name, CapiSuffix) /\ Len(n.Name) > Len(CapiSuffix)

\* Nil, or the validation error.
ValidateCapiSecret(s) ==
    IF s.Type # CapiType THEN "InvalidRecordKind"
    ELSE IF "value" \notin DOMAIN s.Data THEN "MissingDataField"
    ELSE Nil

\* CapiCluster.Unmarshal: parses Data["value"].
Unmarshal(s) ==
    LET v == MapGet(s.Data, "value")
    IN  IF Len(v) = 3 /\ v[1] = "kubeconfig"
        THEN [err |-> Nil, Server |-> v[2], Cred |-> v[3]]
        ELSE [err |-> "MalformedConfig", Server |-> "", Cred |-> ""]

\* The cluster name: the secret's name without the credential suffix.
BuildClusterName(name) == TrimSuffix(name, CapiSuffix)

\* The Argo secret's identifier: in the Argo namespace, named after the cluster,
\* with the secret's namespace folded in when namespaced names are enabled.
BuildNamespacedName(name, namespace, argoNs, namespaced) ==
    NamespacedName(argoNs,
        ArgoPrefix \o (IF namespaced THEN namespace \o <<"-">> ELSE <<>>)
                   \o BuildClusterName(name))

NewArgoCluster(capiCluster, s, key, argoNs, namespaced) ==
    [NamespacedName |-> BuildNamespacedName(key.Name, key.Namespace, argoNs, namespaced),
     ClusterName   |-> BuildClusterName(key.Name),
     ClusterServer |-> Str(capiCluster.Server),
     ClusterConfig |-> <<"tlsClientConfig", capiCluster.Cred>>,
     ClusterLabels |-> (OwnedLabel :> Str("true"))]

ConvertToSecret(a) ==
    Secret(OpaqueType, a.ClusterLabels,
           ("name" :> a.ClusterName) @@ ("server" :> a.ClusterServer)
              @@ ("config" :> a.ClusterConfig),
           FALSE)

\* Mutant: the class label is set whether the cluster has a topology or not.
SetClassAlways(argoSecret, clu) ==
    [argoSecret EXCEPT !.Labels = MapSet(@, ClassLabel, Str(clu.Class))]

\* Line 93-96: the class label, when the cluster has a topology.
SetClass(argoSecret, clu) ==
    IF clu.HasTopology
    THEN [argoSecret EXCEPT !.Labels = MapSet(@, ClassLabel, Str(clu.Class))]
    ELSE argoSecret

\* Mutant: the owner check looks at the presence of the label, not its value.
ValidateObjectOwnerPresence(s) ==
    IF OwnedLabel \notin DOMAIN s.Labels THEN "not owned by CACO" ELSE Nil

\* Nil, or the error.
ValidateObjectOwner(s) ==
    IF MapGet(s.Labels, OwnedLabel) # Str("true") THEN "not owned by CACO" ELSE Nil

----------------------------------------------------------------------------
(* State *)

\* Values of ARGOCD_NAMESPACE in the environment: the variable is unset (the
\* Argo namespace only prefixes every identifier alike).
ArgoNamespaceEnv == {<<>>}
DefaultArgoNamespace == <<"a", "r", "g", "o", "c", "d">>

ArgoNamespaces == {IF e = <<>> THEN DefaultArgoNamespace ELSE e : e \in ArgoNamespaceEnv}

\* Every identifier an Argo secret of the modelled CAPI secrets can have.
ArgoKeys ==
    {BuildNamespacedName(k.Name, k.Namespace, ns, f) :
        k \in CapiKeys, ns \in ArgoNamespaces, f \in BOOLEAN}

NoCluster == [HasTopology |-> FALSE, Class |-> ""]

\* What util.GetClusterFromMetadata finds for a secret that names its cluster.
Clusters == {NoCluster} \cup {[HasTopology |-> TRUE, Class |-> c] : c \in Classes}

\* The answers of util.GetClusterFromMetadata.
ResolveResults ==
    {[Err |-> Nil, Cluster |-> c] : c \in Clusters}
    \cup {[Err |-> e, Cluster |-> NoCluster] : e \in {"NotFound", "StoreError"}}

NoWrite == [Op |-> "none"]

\* init(), and the store the operator starts against: no Argo secret yet, and
\* the main key's CAPI secret there already or not.
Init ==
    /\ \E e \in ArgoNamespaceEnv :
          ArgoNamespace = IF e = <<>> THEN DefaultArgoNamespace ELSE e
    /\ EnableNamespacedNames \in BOOLEAN
    /\ \E s \in {Absent, WellFormedSecret(MainKey)} :
          capiStore = [k \in Requests |-> IF k = MainKey THEN s ELSE Absent]
    /\ argoStore = [k \in ArgoKeys |-> Absent]
    /\ pc = "idle"
    /\ req = NamespacedName(<<>>, <<>>)
    /\ capiSecret = Absent
    /\ cluster = NoCluster
    /\ existingSecret = Absent
    /\ exists = FALSE
    /\ stale = FALSE
    /\ err = Nil
    /\ outcome = "None"
    /\ calls = <<>>
    /\ lastWrite = NoWrite
    /\ prev = "None"
    /\ quiet = FALSE
    /\ envOps = 0

\* The ArgoCluster and ArgoSecret the pass builds (lines 75-96).
ArgoClusterOf(s, key) ==
    NewArgoCluster(Unmarshal(s), s, key, ArgoNamespace, EnableNamespacedNames)

ArgoSecretOf(s, key, clu) == SetClass(ConvertToSecret(ArgoClusterOf(s, key)), clu)

\* Mutant: the pass addresses the Argo secret by the name without the
\* namespace, whatever the configuration says.
TargetWithoutNamespace ==
    BuildNamespacedName(req.Name, req.Namespace, ArgoNamespace, FALSE)

\* argoCluster.NamespacedName of the running pass: the Argo secret's identifier.
Target ==
    BuildNamespacedName(req.Name, req.Namespace, ArgoNamespace, EnableNamespacedNames)

\* A call of the store or of the resolver, and the error it answered.
Call(op, e) == [Op |-> op, Err |-> e]

\* A return of Reconcile: the error, and the return site when there is none.
Return(site, e) ==
    /\ pc' = "idle"
    /\ err' = e
    /\ outcome' = IF e = Nil THEN site ELSE "Failed"

----------------------------------------------------------------------------
(* The pass *)

\* Mutant: the negation of line 48 is missing.
IgnoredNameInverted(r) == ValidateCapiNaming(r)

\* Line 48: the request is ignored.
IgnoredName(r) == ~ValidateCapiNaming(r)

\* Mutant: every error of the fetch is dropped.
IgnoreEveryError(e) == Nil

\* Line 56: client.IgnoreNotFound.
IgnoreNotFound(e) == IF e = "NotFound" THEN Nil ELSE e

\* Mutant: the Argo secret of a CAPI secret that is gone is deleted.
DeleteOnCapiSecretGone(store, key) == [store EXCEPT ![key] = Absent]

\* Lines 54-57: when the CAPI secret is gone the pass returns; the Argo
\* secrets stay as they are.
OnCapiSecretGone(store, key) == store

\* Lines 43-66: name validation, fetch of the CAPI secret, type validation.
\* fail: the store answers the fetch with an error.
StartPass(r, fail) ==
    /\ pc = "idle"
    /\ req' = r
    /\ prev' = IF r = req /\ quiet THEN outcome ELSE "None"
    /\ quiet' = TRUE
    /\ cluster' = NoCluster
    /\ existingSecret' = Absent
    /\ exists' = FALSE
    /\ stale' = FALSE
    /\ lastWrite' = NoWrite
    /\ UNCHANGED <<confVars, capiStore, envOps>>
    /\ IF IgnoredName(r)
       THEN /\ calls' = <<>>
            /\ capiSecret' = Absent
            /\ argoStore' = argoStore
            /\ Return("Skipped", Nil)
       ELSE LET e == IF fail THEN "StoreError"
                     ELSE IF capiStore[r] = Absent THEN "NotFound" ELSE Nil
                key == BuildNamespacedName(r.Name, r.Namespace, ArgoNamespace,
                                           EnableNamespacedNames)
            IN  /\ calls' = <<Call("GetCapiSecret", e)>>
                /\ argoStore' = IF e = "NotFound"
                                THEN OnCapiSecretGone(argoStore, key)
                                ELSE argoStore
                /\ IF e # Nil
                   THEN capiSecret' = Absent /\ Return("Gone", IgnoreNotFound(e))
                   ELSE /\ capiSecret' = capiStore[r]
                        /\ IF ValidateCapiSecret(capiStore[r]) # Nil
                           THEN Return("Failed", ValidateCapiSecret(capiStore[r]))
                           ELSE pc' = "resolve" /\ UNCHANGED <<err, outcome>>

\* Mutant: the error of the resolver is dropped and the pass goes on.
ResolverErrorDropped(e) == FALSE

\* Lines 69-72: an error of the resolver ends the pass.
ResolverFailed(e) == e # Nil

\* Mutant: the error of the parse is dropped and the pass goes on.
ParseErrorDropped(e) == FALSE

\* Lines 76-80: an error of the parse ends the pass.
ParseFailed(e) == e # Nil

\* Lines 68-96: resolution of the owning cluster, parse of the connection
\* configuration, construction of the Argo secret. res is what the resolver
\* answers when the secret names a cluster.
ResolveCluster(res) ==
    /\ pc = "resolve"
    /\ UNCHANGED <<confVars, capiStore, argoStore, envOps, quiet, req, capiSecret,
                   existingSecret, exists, stale, lastWrite, prev>>
    /\ LET ans == IF MapGet(capiSecret.Labels, ClusterNameLabel) = <<>>
                  THEN [Err |-> "NoCluster", Cluster |-> NoCluster]
                  ELSE res
       IN  /\ calls' = Append(calls, Call("GetCluster", ans.Err))
           /\ cluster' = ans.Cluster
           /\ IF ResolverFailed(ans.Err)
              THEN Return("Failed", ans.Err)
              ELSE IF ParseFailed(Unmarshal(capiSecret).err)
              THEN Return("Failed", Unmarshal(capiSecret).err)
              ELSE pc' = "getArgo" /\ UNCHANGED <<err, outcome>>

\* Lines 98-113: fetch of the existing Argo secret.
GetArgoSecret(fail) ==
    /\ pc = "getArgo"
    /\ UNCHANGED <<confVars, capiStore, argoStore, envOps, quiet, req, capiSecret,
                   cluster, stale, lastWrite, prev>>
    /\ LET e == IF fail THEN "StoreError"
                ELSE IF argoStore[Target] = Absent THEN "NotFound" ELSE Nil
       IN  /\ calls' = Append(calls, Call("GetArgoSecret", e))
           /\ IF e \notin {Nil, "NotFound"}
              THEN /\ Return("Failed", e)
                   /\ UNCHANGED <<existingSecret, exists>>
              ELSE /\ existingSecret' = argoStore[Target]
                   /\ exists' = (e = Nil)
                   /\ pc' = IF e = Nil THEN "reconcile" ELSE "create"
                   /\ UNCHANGED <<err, outcome>>

\* Lines 121-128: the Argo secret does not exist; create it.
CreateArgoSecret(fail) ==
    /\ pc = "create"
    /\ UNCHANGED <<confVars, capiStore, envOps, quiet, req, capiSecret, cluster,
                   existingSecret, exists, stale, prev>>
    /\ LET e == IF fail THEN "StoreError"
                ELSE IF argoStore[Target] # Absent THEN "AlreadyExists" ELSE Nil
           argoSecret == ArgoSecretOf(capiSecret, req, cluster)
       IN  /\ calls' = Append(calls, Call("Create", e))
           /\ IF e # Nil
              THEN /\ Return("Failed", e)
                   /\ UNCHANGED <<argoStore, lastWrite>>
              ELSE /\ argoStore' = [argoStore EXCEPT ![Target] = argoSecret]
                   /\ lastWrite' = [Op |-> "create", Key |-> Target,
                                    Before |-> Absent, After |-> argoSecret]
                   /\ Return("Created", Nil)

\* Lines 139-154: the data fields of the existing secret that differ from the
\* ArgoCluster's.
ChangedFields(existing, argoSecret) ==
    {f \in {"name", "server", "config"} :
        ~BytesEqual(MapGet(existing.Data, f), argoSecret.Data[f])}

\* Mutant: the server field receives the cluster name.
PatchedServerFromName(existing, argoSecret) ==
    [existing EXCEPT !.Data =
        [f \in DOMAIN existing.Data \cup ChangedFields(existing, argoSecret) |->
            IF f \in ChangedFields(existing, argoSecret)
            THEN (IF f = "server" THEN argoSecret.Data["name"] ELSE argoSecret.Data[f])
            ELSE existing.Data[f]]]

\* Mutant: the update carries the data of the new Argo secret as a whole.
PatchedWholeData(existing, argoSecret) ==
    [existing EXCEPT !.Data = argoSecret.Data]

\* Mutant: the update carries the labels of the new Argo secret too.
PatchedWithLabels(existing, argoSecret) ==
    [existing EXCEPT
        !.Labels = argoSecret.Labels,
        !.Data =
            [f \in DOMAIN existing.Data \cup ChangedFields(existing, argoSecret) |->
                IF f \in ChangedFields(existing, argoSecret)
                THEN argoSecret.Data[f] ELSE existing.Data[f]]]

\* Lines 141-154: the existing secret with the differing fields overwritten.
Patched(existing, argoSecret) ==
    [existing EXCEPT !.Data =
        [f \in DOMAIN existing.Data \cup ChangedFields(existing, argoSecret) |->
            IF f \in ChangedFields(existing, argoSecret)
            THEN argoSecret.Data[f] ELSE existing.Data[f]]]

\* Mutant: the update sends a secret without the version it was read at, which
\* the store accepts whatever was written since.
UnconditionalUpdate(writtenSince) == FALSE

\* Line 158: the update sends the fetched secret, which carries the version it
\* was read at; the store rejects it when the stored secret was written since.
VersionConflict(writtenSince) == writtenSince

\* Lines 130-167: the Argo secret exists; check its owner, compare the three
\* data fields, update when one differs.
ReconcileExisting(fail) ==
    /\ pc = "reconcile"
    /\ UNCHANGED <<confVars, capiStore, envOps, quiet, req, capiSecret, cluster,
                   exists, stale, prev>>
    /\ LET argoSecret == ArgoSecretOf(capiSecret, req, cluster)
           changed == ChangedFields(existingSecret, argoSecret)
           e == IF fail THEN "StoreError"
                ELSE IF argoStore[Target] = Absent THEN "NotFound"
                ELSE IF VersionConflict(stale) THEN "Conflict" ELSE Nil
       IN  IF ValidateObjectOwner(existingSecret) # Nil
           THEN /\ Return("Skipped", Nil)
                /\ UNCHANGED <<argoStore, lastWrite, calls, existingSecret>>
           ELSE IF changed = {}
           THEN /\ Return("InSync", Nil)
                /\ UNCHANGED <<argoStore, lastWrite, calls, existingSecret>>
           ELSE IF existingSecret.NilData
           THEN \* assignment to an entry of a nil map
                /\ pc' = "idle"
                /\ err' = "panic"
                /\ outcome' = "Panicked"
                /\ UNCHANGED <<argoStore, lastWrite, calls, existingSecret>>
           ELSE /\ existingSecret' = Patched(existingSecret, argoSecret)
                /\ calls' = Append(calls, Call("Update", e))
                /\ IF e # Nil
                   THEN /\ Return("Failed", e)
                        /\ UNCHANGED <<argoStore, lastWrite>>
                   ELSE /\ argoStore' = [argoStore EXCEPT
                                ![Target] = Patched(existingSecret, argoSecret)]
                        /\ lastWrite' = [Op |-> "update", Key |-> Target,
                                         Before |-> argoStore[Target],
                                         After |-> Patched(existingSecret, argoSecret)]
                        /\ Return("Updated", Nil)

----------------------------------------------------------------------------
(* Other actors *)

\* The Argo secret other writers write too: the main key's.
ForeignArgoKeys ==
    {BuildNamespacedName(MainKey.Name, MainKey.Namespace, ArgoNamespace,
                         EnableNamespacedNames)}

\* The running pass has read the Argo secret k and not yet written it.
Reading(k) == pc \in {"create", "reconcile"} /\ k = Target

\* The cluster-lifecycle manager creates or changes a CAPI secret.
PutCapiSecret(k, s) ==
    /\ envOps < MaxEnvOps
    /\ capiStore[k] # s
    /\ capiStore' = [capiStore EXCEPT ![k] = s]
    /\ envOps' = envOps + 1
    /\ quiet' = FALSE
    /\ UNCHANGED <<confVars, argoStore, passVars>>

\* The cluster-lifecycle manager deletes a CAPI secret.
DeleteCapiSecret(k) ==
    /\ envOps < MaxEnvOps
    /\ capiStore[k] # Absent
    /\ capiStore' = [capiStore EXCEPT ![k] = Absent]
    /\ envOps' = envOps + 1
    /\ quiet' = FALSE
    /\ UNCHANGED <<confVars, argoStore, passVars>>

\* Another writer creates or replaces an Argo secret.
PutArgoSecret(k, s) ==
    /\ envOps < MaxEnvOps
    /\ k \in ForeignArgoKeys
    /\ argoStore[k] # s
    /\ argoStore' = [argoStore EXCEPT ![k] = s]
    /\ stale' = (stale \/ Reading(k))
    /\ envOps' = envOps + 1
    /\ quiet' = FALSE
    /\ UNCHANGED <<confVars, capiStore, pc, req, capiSecret, cluster, existingSecret,
                   exists, err, outcome, calls, lastWrite, prev>>

\* Another writer deletes an Argo secret.
DeleteArgoSecret(k) ==
    /\ envOps < MaxEnvOps
    /\ k \in ForeignArgoKeys
    /\ argoStore[k] # Absent
    /\ argoStore' = [argoStore EXCEPT ![k] = Absent]
    /\ stale' = (stale \/ Reading(k))
    /\ envOps' = envOps + 1
    /\ quiet' = FALSE
    /\ UNCHANGED <<confVars, capiStore, pc, req, capiSecret, cluster, existingSecret,
                   exists, err, outcome, calls, lastWrite, prev>>

----------------------------------------------------------------------------
(* Specification *)


Next ==
    \/ \E r \in Requests, fail \in BOOLEAN : StartPass(r, fail)
    \/ \E res \in ResolveResults : ResolveCluster(res)
    \/ \E fail \in BOOLEAN : GetArgoSecret(fail)
    \/ \E fail \in BOOLEAN : CreateArgoSecret(fail)
    \/ \E fail \in BOOLEAN : ReconcileExisting(fail)
    \/ \E k \in CapiKeys : \E s \in CapiSecretsOf(k) : PutCapiSecret(k, s)
    \/ \E k \in CapiKeys : DeleteCapiSecret(k)
    \/ \E k \in ArgoKeys : \E s \in ForeignArgoSecrets : PutArgoSecret(k, s)
    \/ \E k \in ArgoKeys : DeleteArgoSecret(k)

Spec == Init /\ [][Next]_vars

----------------------------------------------------------------------------
(* Properties *)

\* The operations of the calls of the running (or last) pass.
CallOps == {calls[i].Op : i \in 1..Len(calls)}

\* The writes among them.
WriteCalls == {i \in 1..Len(calls) : calls[i].Op \in {"Create", "Update"}}

\* A pass has run and returned.
Finished == pc = "idle" /\ outcome # "None"

\* The three data fields the transformation of the fetched CAPI secret gives.
Transformed ==
    ("name" :> TrimSuffix(req.Name, CapiSuffix))
        @@ ("server" :> Str(capiSecret.Data["value"][2]))
        @@ ("config" :> <<"tlsClientConfig", capiSecret.Data["value"][3]>>)

\* The pass found an Argo secret without the owned marker.
FoundNotOwned == exists /\ MapGet(existingSecret.Labels, OwnedLabel) # Str("true")

\* C1. Ownership safety: a pass that finds an existing Argo secret whose owned
\* label is absent or is not "true" issues no create and no update, returns
\* without error as Skipped, and leaves the stored secret as it found it.
C1_OwnershipSafety ==
    FoundNotOwned =>
        /\ WriteCalls = {}
        /\ lastWrite = NoWrite
        /\ pc \in {"reconcile", "idle"}
        /\ (pc = "idle" => outcome = "Skipped" /\ err = Nil)
        /\ (quiet => argoStore[Target] = existingSecret)

\* C1 witness: a finished pass found a secret labelled owned = "false" whose
\* data differs from the transformed secret's, and skipped it.
C1_Witness ==
    /\ Finished
    /\ outcome = "Skipped"
    /\ exists
    /\ MapGet(existingSecret.Labels, OwnedLabel) = Str("false")
    /\ \E f \in DOMAIN Transformed : MapGet(existingSecret.Data, f) # Transformed[f]
    /\ quiet
    /\ argoStore[Target] = existingSecret

\* C2. Idempotence: when the previous pass for the same request ended Created
\* or Updated and no other actor wrote since that pass started, this pass
\* issues no write, and it ends InSync unless a call of it fails.
C2_Idempotence ==
    (prev \in {"Created", "Updated"} /\ quiet) =>
        /\ WriteCalls = {}
        /\ lastWrite = NoWrite
        /\ pc # "create"
        /\ (pc = "idle" => outcome \in {"InSync", "Failed"})
        /\ (pc = "idle" /\ outcome = "Failed" =>
                /\ calls[Len(calls)].Err # Nil
                /\ calls[Len(calls)].Op \in {"GetCapiSecret", "GetCluster", "GetArgoSecret"})

\* C2 witness: Created, then InSync.
C2_Witness ==
    /\ Finished
    /\ prev = "Created"
    /\ quiet
    /\ outcome = "InSync"
    /\ argoStore[Target].Data = Transformed

\* C3 (as claimed). A CAPI secret of another type ends the pass Skipped: no
\* error is returned and nothing is written.
C3_WrongTypeSkipped ==
    (Finished /\ capiSecret # Absent /\ capiSecret.Type # CapiType) =>
        /\ outcome = "Skipped"
        /\ err = Nil
        /\ WriteCalls = {}

\* C4 (as claimed). When the resolver answers NotFound for the owning cluster,
\* the pass does not fail: it ends Created, Updated, InSync or Skipped.
C4_NotFoundTolerated ==
    (Finished /\ \E i \in 1..Len(calls) : calls[i] = Call("GetCluster", "NotFound")) =>
        outcome \in {"Created", "Updated", "InSync", "Skipped"}

\* The name is <clusterName>-kubeconfig with a cluster name that is not empty.
MatchesCapiPattern(name) ==
    \E n \in 1..Len(name) :
        n < Len(name) /\ SubSeq(name, n + 1, Len(name)) = CapiSuffix

\* C5. A request whose name does not match <clusterName>-kubeconfig ends
\* Skipped without error and without any call of the store or the resolver.
C5_IgnoredNameNoCalls ==
    (outcome # "None" /\ ~MatchesCapiPattern(req.Name)) =>
        /\ pc = "idle"
        /\ outcome = "Skipped"
        /\ err = Nil
        /\ calls = <<>>
        /\ lastWrite = NoWrite
        /\ capiSecret = Absent
        /\ ~exists

\* C5 witness: a request for the name "-kubeconfig", with no cluster name, was
\* skipped.
C5_Witness ==
    /\ Finished
    /\ req.Name = CapiSuffix
    /\ outcome = "Skipped"
    /\ calls = <<>>

\* C6. Field-level minimality: an update changes, among the data keys of the
\* secret it updates, only those of name, server and config that differed from
\* the transformed value; every other key keeps its content and no key is lost.
C6_FieldMinimality ==
    (Finished /\ outcome = "Updated") =>
        /\ lastWrite # NoWrite
        /\ lastWrite.Op = "update"
        /\ LET before == lastWrite.Before.Data
               after  == lastWrite.After.Data
           IN  /\ DOMAIN before \subseteq DOMAIN after
               /\ \A k \in DOMAIN before :
                     (k \notin DOMAIN Transformed \/ before[k] = Transformed[k])
                        => after[k] = before[k]
               /\ \A k \in DOMAIN after \ DOMAIN before : k \in DOMAIN Transformed
               /\ \E k \in DOMAIN Transformed : MapGet(before, k) # Transformed[k]

\* C6 witness: scenario C. Only server differed; the update changed server and
\* kept name, config and a key the pass knows nothing of.
C6_Witness ==
    /\ Finished
    /\ outcome = "Updated"
    /\ {k \in DOMAIN Transformed : MapGet(lastWrite.Before.Data, k) # Transformed[k]}
          = {"server"}
    /\ "project" \in DOMAIN lastWrite.Before.Data
    /\ lastWrite.After.Data["server"] = Str(Server1)
    /\ lastWrite.Before.Data["server"] = Str(Server2)

\* The class label the resolved cluster asks for: none without a topology.
ResolvedClass == IF cluster.HasTopology THEN Str(cluster.Class) ELSE <<>>

C8_CreateOnAbsence ==
    /\ (Finished /\ Len(calls) = 4 /\ calls[4] = Call("Create", Nil)) =>
            outcome = "Created"
    /\ (Finished /\ outcome = "Created") =>
        /\ ~exists
        /\ calls = <<Call("GetCapiSecret", Nil), Call("GetCluster", Nil),
                     Call("GetArgoSecret", "NotFound"), Call("Create", Nil)>>
        /\ lastWrite # NoWrite
        /\ lastWrite.Op = "create"
        /\ lastWrite.Key = Target
        /\ lastWrite.After.Data = Transformed
        /\ lastWrite.After.Data["name"] = TrimSuffix(req.Name, CapiSuffix)
        /\ lastWrite.After.Data["server"] \in {Str(Server1), Str(Server2)}
        /\ MapGet(lastWrite.After.Labels, OwnedLabel) = Str("true")
        /\ (ClassLabel \in DOMAIN lastWrite.After.Labels) = cluster.HasTopology
        /\ MapGet(lastWrite.After.Labels, ClassLabel) = ResolvedClass
        /\ DOMAIN lastWrite.After.Labels \subseteq {OwnedLabel, ClassLabel}
        /\ (quiet => argoStore[Target] = lastWrite.After)

\* C8 witness: scenario A. The secret n/a-b-kubeconfig pointing to
\* https://1.2.3.4:6443, of a cluster without a topology, was created as "a-b".
C8_Witness ==
    /\ Finished
    /\ outcome = "Created"
    /\ req = MainKey
    /\ ~cluster.HasTopology
    /\ quiet
    /\ argoStore[Target].Data["name"] = <<"a", "-", "b">>
    /\ argoStore[Target].Data["server"] = Str(Server1)
    /\ DOMAIN argoStore[Target].Labels = {OwnedLabel}

\* An error a call answered that is not the NotFound of a fetch.
HardError(c) ==
    /\ c.Err # Nil
    /\ ~(c.Op \in {"GetCapiSecret", "GetArgoSecret"} /\ c.Err = "NotFound")

\* C9. No error is swallowed: when a call of the store or the resolver answers
\* an error (other than the NotFound of a fetch), it is the last call of the
\* pass, the pass returns that error, and the pass has written nothing: after
\* a failed create there is still no Argo secret.
C9_NoErrorSwallowed ==
    \A i \in 1..Len(calls) :
        HardError(calls[i]) =>
            /\ i = Len(calls)
            /\ pc = "idle"
            /\ outcome = "Failed"
            /\ err = calls[i].Err
            /\ lastWrite = NoWrite
            /\ (quiet /\ calls[i].Op = "Create" => argoStore[Target] = Absent)

\* C9 witness: the update of a pass failed and the pass returned the error.
C9_Witness ==
    /\ Finished
    /\ Len(calls) = 4
    /\ calls[4] = Call("Update", "StoreError")
    /\ err = "StoreError"
    /\ quiet
    /\ argoStore[Target] # existingSecret

\* C10 (as claimed). Injective naming: the Argo secret a pass reads or writes
\* is the Argo secret of no other CAPI secret.
C10_InjectiveNaming ==
    \A k \in CapiKeys :
        ("GetArgoSecret" \in CallOps /\ k # req) =>
            BuildNamespacedName(k.Name, k.Namespace, ArgoNamespace,
                                EnableNamespacedNames) # Target

\* The step issues the create or the update of the running pass.
WriteStep == pc \in {"create", "reconcile"} /\ Len(calls') = Len(calls) + 1

\* C11. Races with another writer: when another writer wrote the Argo secret
\* after the pass read it and the secret is there at the pass's write, the
\* store rejects the write (AlreadyExists, Conflict, or its own failure), the
\* pass ends Failed and the stored secret stays what the other writer wrote;
\* and no write of a pass changes a stored secret that lacks the owned marker.
C11_RacesRejected ==
    [][ /\ (WriteStep /\ stale /\ argoStore[Target] # Absent) =>
              /\ argoStore' = argoStore
              /\ lastWrite' = NoWrite
              /\ outcome' = "Failed"
              /\ err' \in {"StoreError",
                           IF pc = "create" THEN "AlreadyExists" ELSE "Conflict"}
        /\ (envOps' = envOps /\ argoStore' # argoStore) =>
              /\ WriteStep
              /\ \A k \in ArgoKeys \ {Target} : argoStore'[k] = argoStore[k]
              /\ \/ argoStore[Target] = Absent
                 \/ MapGet(argoStore[Target].Labels, OwnedLabel) = Str("true")
      ]_vars

\* C11 witness: the pass read an owned secret, another writer replaced it by
\* one without the owned marker, and the update of the pass ended in Conflict
\* with the other writer's secret still stored.
C11_Witness ==
    /\ Finished
    /\ stale
    /\ Len(calls) = 4
    /\ calls[4] = Call("Update", "Conflict")
    /\ outcome = "Failed"
    /\ lastWrite = NoWrite
    /\ argoStore[Target] \in ForeignArgoSecrets
    /\ OwnedLabel \notin DOMAIN argoStore[Target].Labels

\* The scheduling of the controller: a pass that has started runs to its end,
\* the work queue hands out the request of the CAPI secret again and again
\* (a failed pass is requeued, the informer resyncs), and a call that is
\* tried again and again does not fail every time.
FairSpec ==
    /\ Spec
    /\ SF_vars(StartPass(MainKey, FALSE))
    /\ SF_vars(\E res \in ResolveResults : res.Err = Nil /\ ResolveCluster(res))
    /\ SF_vars(GetArgoSecret(FALSE))
    /\ SF_vars(CreateArgoSecret(FALSE))
    /\ SF_vars(ReconcileExisting(FALSE))

\* The Argo secret's identifier of the CAPI secret n/a-b-kubeconfig.
MainTarget ==
    BuildNamespacedName(MainKey.Name, MainKey.Namespace, ArgoNamespace,
                        EnableNamespacedNames)

\* The CAPI secret n/a-b-kubeconfig is stored and valid, and its Argo secret
\* is absent or carries the owned marker.
ValidAndOwned ==
    /\ capiStore[MainKey] # Absent
    /\ ValidateCapiSecret(capiStore[MainKey]) = Nil
    /\ ClusterNameLabel \in DOMAIN capiStore[MainKey].Labels
    /\ Unmarshal(capiStore[MainKey]).err = Nil
    /\ \/ argoStore[MainTarget] = Absent
       \/ MapGet(argoStore[MainTarget].Labels, OwnedLabel) = Str("true")

\* No call of the running (or last) pass answered an error.
NoCallFails == \A i \in 1..Len(calls) : ~HardError(calls[i])

\* The Argo secret of n/a-b-kubeconfig carries the transformed name, server
\* and config, and a finished pass for it ended InSync.
Converged ==
    /\ capiStore[MainKey] # Absent
    /\ Len(MapGet(capiStore[MainKey].Data, "value")) = 3
    /\ argoStore[MainTarget] # Absent
    /\ MapGet(argoStore[MainTarget].Data, "name") = TrimSuffix(MainKey.Name, CapiSuffix)
    /\ MapGet(argoStore[MainTarget].Data, "server")
         = Str(capiStore[MainKey].Data["value"][2])
    /\ MapGet(argoStore[MainTarget].Data, "config")
         = <<"tlsClientConfig", capiStore[MainKey].Data["value"][3]>>
    /\ (Finished /\ req = MainKey => outcome = "InSync")

\* C12 (as claimed). Convergence under retry: when from some point on the CAPI
\* secret is valid, its cluster resolves, its Argo secret is absent or owned
\* and no call fails, then from some point on the Argo secret carries the
\* transformed name, server and config and every pass ends InSync.
C12_Convergence ==
    (<>[]ValidAndOwned /\ <>[]NoCallFails) => <>[]Converged

\* The fetches of a pass, in the order of the code.
StageCalls == <<"GetCapiSecret", "GetCluster", "GetArgoSecret">>

\* C13. Stage ordering: the calls of a pass are a prefix of: fetch of the CAPI
\* secret, resolution of the cluster, fetch of the Argo secret, create or
\* update. Each call is made only after the name validation and every earlier
\* stage succeeded (the type validation before the resolution, the parse of
\* the configuration before the fetch of the Argo secret, the ownership check
\* before an update, and no ownership check before a create), and a pass that
\* stops at a stage makes no later call.
C13_StageOrdering ==
    /\ Len(calls) <= 4
    /\ \A i \in 1..Len(calls) :
          /\ IF i <= 3 THEN calls[i].Op = StageCalls[i]
                       ELSE calls[i].Op \in {"Create", "Update"}
          /\ (calls[i].Err # Nil /\ calls[i] # Call("GetArgoSecret", "NotFound")) =>
                i = Len(calls) /\ pc = "idle" /\ outcome \in {"Failed", "Gone"}
    /\ (Len(calls) >= 1 => MatchesCapiPattern(req.Name))
    /\ (Len(calls) >= 2 =>
          /\ capiSecret # Absent
          /\ capiSecret.Type = CapiType
          /\ MapGet(capiSecret.Data, "value") # <<>>)
    /\ (Len(calls) >= 3 =>
          /\ calls[2].Err = Nil
          /\ Len(MapGet(capiSecret.Data, "value")) = 3)
    /\ (Len(calls) = 4 =>
          IF calls[4].Op = "Create"
          THEN calls[3].Err = "NotFound" /\ ~exists
          ELSE /\ calls[3].Err = Nil
               /\ exists
               /\ MapGet(existingSecret.Labels, OwnedLabel) = Str("true"))
    /\ (Finished /\ err \in {"InvalidRecordKind", "MissingDataField"} =>
          Len(calls) = 1)
    /\ (Finished /\ err = "MalformedConfig" => Len(calls) = 2)
    /\ (Finished /\ FoundNotOwned => Len(calls) = 3)

\* C13 witness: a pass went through every stage: the four calls in order, each
\* without error, the last one the update of an owned secret.
C13_Witness ==
    /\ Finished
    /\ calls = <<Call("GetCapiSecret", Nil), Call("GetCluster", Nil),
                 Call("GetArgoSecret", Nil), Call("Update", Nil)>>
    /\ outcome = "Updated"

\* The pass fetched a CAPI secret whose connection configuration is there and
\* cannot be parsed.
FetchedUnparseable ==
    /\ capiSecret # Absent
    /\ MapGet(capiSecret.Data, "value") # <<>>
    /\ Unmarshal(capiSecret).err = "MalformedConfig"

\* C14. A pass that fetched a CAPI secret whose connection configuration
\* cannot be parsed never reads and never writes the Argo secret and ends
\* Failed; when it reaches the parse (type validated, cluster resolved) the
\* error it returns is the parse error, MalformedConfig.
C14_MalformedConfigFails ==
    FetchedUnparseable =>
        /\ pc \in {"resolve", "idle"}
        /\ "GetArgoSecret" \notin CallOps
        /\ WriteCalls = {}
        /\ lastWrite = NoWrite
        /\ ~exists
        /\ (pc = "idle" => outcome = "Failed" /\ err # Nil)
        /\ (pc = "idle" /\ Len(calls) = 2 /\ calls[2] = Call("GetCluster", Nil) =>
                err = "MalformedConfig")

\* C14 witness: the cluster resolved, the parse failed, the pass returned
\* MalformedConfig, and the Argo secret a former pass wrote is still stored.
C14_Witness ==
    /\ Finished
    /\ FetchedUnparseable
    /\ calls = <<Call("GetCapiSecret", Nil), Call("GetCluster", Nil)>>
    /\ outcome = "Failed"
    /\ err = "MalformedConfig"
    /\ argoStore[Target] # Absent
    /\ MapGet(argoStore[Target].Data, "server") = Str(Server1)

\* C15. Argo secrets are never deleted by a pass: a pass for a CAPI secret
\* that is gone (the fetch answers NotFound) returns without error and without
\* a write, and whatever CAPI secrets are created, changed and deleted and
\* whatever passes run, a stored Argo secret disappears only by the step of
\* another actor.
C15_NeverDeleted ==
    /\ [](Finished /\ calls = <<Call("GetCapiSecret", "NotFound")>> =>
            /\ outcome = "Gone"
            /\ err = Nil
            /\ WriteCalls = {}
            /\ lastWrite = NoWrite)
    /\ [][ \A k \in ArgoKeys :
              (argoStore[k] # Absent /\ argoStore'[k] = Absent) =>
                  /\ envOps' = envOps + 1
                  /\ UNCHANGED <<pc, calls, outcome, lastWrite>>
         ]_vars

\* C15 witness: the CAPI secret was deleted, the pass for it found it gone,
\* and the owned Argo secret of the deleted CAPI secret is still stored.
C15_Witness ==
    /\ Finished
    /\ outcome = "Gone"
    /\ calls = <<Call("GetCapiSecret", "NotFound")>>
    /\ capiStore[req] = Absent
    /\ argoStore[Target] # Absent
    /\ MapGet(argoStore[Target].Labels, OwnedLabel) = Str("true")

\* C16 (as claimed). A pass that ends Created or Updated has stored an Argo
\* secret whose name, server and config are present and equal the transformed
\* values; and a pass that finds an owned secret with no data mapping, or with
\* some of the three fields missing, ends Updated with all three stored: it
\* does not crash.
C16_FullyFormedRecord ==
    /\ (Finished /\ outcome \in {"Created", "Updated"}) =>
          /\ lastWrite # NoWrite
          /\ \A f \in {"name", "server", "config"} :
                /\ f \in DOMAIN lastWrite.After.Data
                /\ lastWrite.After.Data[f] = Transformed[f]
    /\ (pc = "idle" /\ outcome # "None" /\ exists /\ ~FoundNotOwned
          /\ \E f \in {"name", "server", "config"} :
                MapGet(existingSecret.Data, f) # Transformed[f]) =>
          outcome = "Updated"

\* The Argo secret's identifier derived from the request of the pass.
DerivedKey ==
    BuildNamespacedName(req.Name, req.Namespace, ArgoNamespace,
                        EnableNamespacedNames)

\* C17. Write footprint: a pass issues at most one write, a create or an
\* update; the write changes the Argo secret derived from the request of the
\* pass and no other; no step of a pass changes a CAPI secret, and the only
\* call on a cluster is its resolution; a pass that ends Skipped, InSync, or
\* Failed before its write, and a pass for a CAPI secret that is gone, has
\* issued no write.
C17_WriteFootprint ==
    /\ [](/\ Cardinality(WriteCalls) <= 1
          /\ CallOps \subseteq {"GetCapiSecret", "GetCluster", "GetArgoSecret",
                                "Create", "Update"}
          /\ (lastWrite # NoWrite =>
                /\ lastWrite.Key = DerivedKey
                /\ Cardinality(WriteCalls) = 1
                /\ calls[Len(calls)].Err = Nil)
          /\ (Finished /\ outcome \in {"Skipped", "InSync", "Gone"} =>
                WriteCalls = {} /\ lastWrite = NoWrite)
          /\ (Finished /\ outcome = "Failed" =>
                /\ lastWrite = NoWrite
                /\ (calls[Len(calls)].Op \notin {"Create", "Update"} =>
                        WriteCalls = {})))
    /\ [][ envOps' = envOps =>
              /\ capiStore' = capiStore
              /\ (argoStore' # argoStore =>
                    /\ req' = req
                    /\ lastWrite'.Key = DerivedKey
                    /\ Len(calls') = Len(calls) + 1
                    /\ calls'[Len(calls')].Op \in {"Create", "Update"}
                    /\ \A k \in ArgoKeys \ {DerivedKey} :
                          argoStore'[k] = argoStore[k])
         ]_vars

\* C17 witness: with namespaced names, a pass created the Argo secret derived
\* from its request with its one write, and the CAPI secret is as it was
\* fetched.
C17_Witness ==
    /\ Finished
    /\ EnableNamespacedNames
    /\ outcome = "Created"
    /\ Cardinality(WriteCalls) = 1
    /\ lastWrite.Key = DerivedKey
    /\ argoStore[DerivedKey] = lastWrite.After
    /\ capiStore[req] = capiSecret

====
